---- MODULE Spec2Model ----
(***************************************************************************)
(* Model of the RAG question-answering agent (LangGraph state graph):      *)
(*   analyze_query -> retrieve_documents -> generate_answer ->             *)
(*   evaluate_answer -> (should_retry) -> analyze_query | END              *)
(* The language model, the structured-output parser and the vector search  *)
(* are external: their answers are drawn from small sets.                  *)
(***************************************************************************)
EXTENDS Integers, Sequences, FiniteSets, Bags, TLC

VARIABLES
    state,        \* RAGAgentState: the dict threaded through the graph
    pc,           \* the node the graph runs next, or "END" / "FAILED"
    trace,        \* history: the nodes executed so far, in order
    evalCount,    \* history: number of evaluate_answer steps completed
    lastEval,     \* history: the EvaluationResult of the last evaluation
    analyzerInput,\* history: the question last sent to query_analyzer
    decision,     \* history: the last value returned by should_retry
    searched,     \* history: the list the last retrieval returned (and, when
                  \* retrieve_documents is run on its own, the search results)
    response,     \* the QueryResponse query() returned, NoResponse before that
    lastAnswer,   \* history: the answer the last answer_generator call returned
    analyzerOutput, \* history: the query list the last query_analyzer call produced
    request,      \* the body of the POST /query request being served
    store,        \* the chunks held by the Chroma collection
    upload,       \* the POST /upload request being served and its progress
    health,       \* the GET /health request being served and its progress
    runs          \* the agent runs of concurrently served query requests

vars == <<state, pc, trace, evalCount, lastEval, analyzerInput, decision, searched,
          response, lastAnswer, analyzerOutput, request, store, upload, health, runs>>

\* the variables of the API layer around one agent run
serviceVars == <<request, store, upload, health, runs>>

----------------------------------------------------------------------------
(* Bounds of the model *)

\* longest list of queries the query analyzer returns in the model (schema: 1..5)
MaxQueries == 2
\* most documents one similarity search returns in the full-run model (at most k)
MaxHits == 1
\* largest iteration value handed to should_retry when it is called on its own
MaxIterArg == 5

(* Program constants *)

MAX_ITERATIONS == 3
\* the k of vectorstore_manager.similarity_search(query, k=3)
SEARCH_K == 3

----------------------------------------------------------------------------
(* Values *)

Questions == {"question1", "question2"}
QueryTexts == {"sq1", "sq2"}
Answers == {"answer1", "answer2"}
Reasons == {"", "reason1"}
MissingInfos == {"", "missing1"}
\* EvaluationResult.score in tenths (0.3 and 0.9)
Scores == {3, 9}

\* Documents of the vector store: page_content and metadata (page is optional)
Doc(text, source) == [page_content |-> text, metadata |-> [source |-> source]]
DocP(text, source, page) ==
    [page_content |-> text, metadata |-> [source |-> source, page |-> page]]

\* the store searched in a full run: two chunks of one source file
Corpus == { DocP("text_a", "s1.md", 0),
            DocP("text_b", "s1.md", 1) }

\* the store searched when retrieve_documents is run on its own: a second file
\* holds a chunk with the text of a chunk of the first
CorpusWithCopy == Corpus \cup { Doc("text_a", "s2.md") }

Min(a, b) == IF a < b THEN a ELSE b

\* all sequences over S with length in lo..hi
SeqsOf(S, lo, hi) == UNION { [1..n -> S] : n \in lo..hi }

\* SearchQueries.queries: min_length=1, max_length=5
\* SearchQueries.queries: Field(min_length=1, max_length=5)
QUERIES_MIN_LENGTH == 1
QUERIES_MAX_LENGTH == 5

\* mutant of SearchQueries_valid: any list is accepted
SearchQueries_valid_any(queries) == TRUE

\* the validation of the structured output against the SearchQueries schema
SearchQueries_valid(queries) ==
    /\ Len(queries) >= QUERIES_MIN_LENGTH
    /\ Len(queries) <= QUERIES_MAX_LENGTH

\* what the model can hand back for the query list: short lists, the empty list
\* and a list one longer than the schema allows
AnalyzerOutputs ==
    SeqsOf(QueryTexts, 0, MaxQueries)
        \cup {[i \in 1..(QUERIES_MAX_LENGTH + 1) |-> "sq1"]}

\* the SearchQueries values: the outputs that pass validation
SearchQueriesValues == { queries \in AnalyzerOutputs : SearchQueries_valid(queries) }

\* EvaluationResult
EvaluationResults ==
    [is_sufficient : BOOLEAN, score : Scores, reason : Reasons,
     missing_info : MissingInfos]

NoEval == [is_sufficient |-> FALSE, score |-> 0, reason |-> "", missing_info |-> ""]
NoSearch == [results |-> <<>>, unique |-> <<>>, k |-> 0]
NoResponse == [status |-> "none"]
NoRequest == [status |-> "none"]
NoUpload == [status |-> "none"]
NoHealth == [status |-> "none"]
NoRuns == <<>>

\* no request other than the agent run under study is being served
ServiceIdle ==
    /\ request = NoRequest
    /\ store = SetToBag(Corpus)
    /\ upload = NoUpload
    /\ health = NoHealth
    /\ runs = NoRuns

----------------------------------------------------------------------------
(* Pure functions of the program *)

\* dict.get(key, default)
Get(st, key, default) == IF key \in DOMAIN st THEN st[key] ELSE default

\* mutants of should_retry: the cap compared with > ; no cap at all; the verdict
\* ignored; the cap one too low
should_retry_gt(st) ==
    IF Get(st, "is_sufficient", FALSE) THEN "end"
    ELSE IF Get(st, "iteration", 0) > MAX_ITERATIONS THEN "end"
    ELSE "retry"

should_retry_nocap(st) ==
    IF Get(st, "is_sufficient", FALSE) THEN "end" ELSE "retry"

should_retry_noverdict(st) ==
    IF Get(st, "iteration", 0) >= MAX_ITERATIONS THEN "end" ELSE "retry"

should_retry_early(st) ==
    IF Get(st, "is_sufficient", FALSE) THEN "end"
    ELSE IF Get(st, "iteration", 0) >= MAX_ITERATIONS - 1 THEN "end"
    ELSE "retry"

should_retry(st) ==
    IF Get(st, "is_sufficient", FALSE) THEN "end"
    ELSE IF Get(st, "iteration", 0) >= MAX_ITERATIONS THEN "end"
    ELSE "retry"

\* the prompt pieces of the retry question (f-string of analyze_query)
RETRY_PREFIX == "\n\nprevious search lacked: "
RETRY_SUFFIX == "\ngenerate search queries that fill this gap."

\* mutant of analyze_question: every retry is augmented, also with an empty reason
analyze_question_always(st) ==
    IF Get(st, "iteration", 0) > 0
    THEN <<st["query"], RETRY_PREFIX, st["evaluation_reason"], RETRY_SUFFIX>>
    ELSE <<st["query"]>>

\* the question analyze_query sends to the query analyzer, as a sequence of pieces
analyze_question(st) ==
    IF Get(st, "iteration", 0) > 0 /\ Get(st, "evaluation_reason", "") # ""
    THEN <<st["query"], RETRY_PREFIX, st["evaluation_reason"], RETRY_SUFFIX>>
    ELSE <<st["query"]>>

\* mutant of analyze_query: the new queries are added to the earlier ones
analyze_query_accumulating(st, queries) ==
    [search_queries |-> st["search_queries"] \o queries]

\* mutant of analyze_query: the retry prompt is written back into query
analyze_query_storing(st, queries) ==
    [search_queries |-> queries,
     query |-> IF Len(analyze_question(st)) > 1 THEN "augmented question"
               ELSE st["query"]]

\* analyze_query's returned update, given the analyzer's result
analyze_query(st, queries) == [search_queries |-> queries]

\* mutant of Flatten: the loop over the queries stops at the first empty result
RECURSIVE Flatten_stop(_)
Flatten_stop(results) ==
    IF results = <<>> \/ Head(results) = <<>> THEN <<>>
    ELSE Head(results) \o Flatten_stop(Tail(results))

\* all_documents: extend() of each query's results, in query order
RECURSIVE Flatten(_)
Flatten(results) ==
    IF results = <<>> THEN <<>>
    ELSE Head(results) \o Flatten(Tail(results))

\* mutant of DedupLoop: nothing is dropped
DedupLoop_none(docs, seen_contents, unique_documents) == unique_documents \o docs

\* mutant of DedupLoop: a document is dropped only when the whole document
\* (text and metadata) was seen before
RECURSIVE DedupLoop_whole(_, _, _)
DedupLoop_whole(docs, seen_contents, unique_documents) ==
    IF docs = <<>> THEN unique_documents
    ELSE LET doc == Head(docs) IN
         IF doc \notin seen_contents
         THEN DedupLoop_whole(Tail(docs), seen_contents \cup {doc},
                              Append(unique_documents, doc))
         ELSE DedupLoop_whole(Tail(docs), seen_contents, unique_documents)

\* the loop over all_documents with seen_contents / unique_documents
RECURSIVE DedupLoop(_, _, _)
DedupLoop(docs, seen_contents, unique_documents) ==
    IF docs = <<>> THEN unique_documents
    ELSE LET doc == Head(docs) IN
         IF doc.page_content \notin seen_contents
         THEN DedupLoop(Tail(docs), seen_contents \cup {doc.page_content},
                        Append(unique_documents, doc))
         ELSE DedupLoop(Tail(docs), seen_contents, unique_documents)

\* retrieve_documents' returned update, given each query's search result
retrieve_documents(st, results) ==
    [retrieved_documents |-> DedupLoop(Flatten(results), {}, <<>>)]

\* the visible delimiter format_documents joins the entries with
DELIMITER == "\n\n---\n\n"

\* metadata.get("source", <unknown>)
UNKNOWN_SOURCE == "unknown"

\* "if page:" on metadata.get("page", ""): an absent page and page 0 are falsy
PageTruthy(metadata) == "page" \in DOMAIN metadata /\ metadata["page"] # 0

\* one formatted part: "[Document i] Source: <source> (p.<page>)\n<page_content>";
\* page_marker is <<page>> when " (p.<page>)" is written and <<>> when it is not
FormattedPart(i, doc) ==
    [number |-> i,
     source |-> Get(doc.metadata, "source", UNKNOWN_SOURCE),
     page_marker |-> IF PageTruthy(doc.metadata) THEN <<doc.metadata["page"]>>
                     ELSE <<>>,
     content |-> doc.page_content]

\* str.join: the parts with the delimiter between neighbours
RECURSIVE Join(_, _)
Join(parts, delimiter) ==
    IF Len(parts) = 0 THEN <<>>
    ELSE IF Len(parts) = 1 THEN <<parts[1]>>
    ELSE <<parts[1], delimiter>> \o Join(Tail(parts), delimiter)

\* format_documents: enumerate(documents, 1), one part per document, joined
format_documents(documents) ==
    Join([i \in 1..Len(documents) |-> FormattedPart(i, documents[i])], DELIMITER)

\* mutant of generate_call: only the documents of the latest retrieval are formatted
generate_call_latest(st) ==
    [question |-> st["query"],
     context |-> format_documents(searched.unique)]

\* the argument generate_answer passes to answer_generator.invoke
generate_call(st) ==
    [question |-> st["query"],
     context |-> format_documents(st["retrieved_documents"])]

\* the argument evaluate_answer passes to evaluator.invoke
evaluate_call(st) == [question |-> st["query"], answer |-> st["answer"]]

\* mutant of generate_answer: an answer already in the state is kept
generate_answer_keep_first(st, answer) ==
    [answer |-> IF st["answer"] = "" THEN answer ELSE st["answer"]]

generate_answer(st, answer) == [answer |-> answer]

\* mutant of evaluate_answer: the verdict is recomputed from the score
evaluate_answer_by_score(st, result) ==
    [is_sufficient |-> result.score >= 7,
     evaluation_reason |-> result.reason,
     iteration |-> Get(st, "iteration", 0) + 1]

\* mutant of evaluate_answer: missing_info is stored as the evaluation reason
evaluate_answer_missing(st, result) ==
    [is_sufficient |-> result.is_sufficient,
     evaluation_reason |-> result.missing_info,
     iteration |-> Get(st, "iteration", 0) + 1]

\* mutant of evaluate_answer: the counter is advanced by two
evaluate_answer_by2(st, result) ==
    [is_sufficient |-> result.is_sufficient,
     evaluation_reason |-> result.reason,
     iteration |-> Get(st, "iteration", 0) + 2]

evaluate_answer(st, result) ==
    [is_sufficient |-> result.is_sufficient,
     evaluation_reason |-> result.reason,
     iteration |-> Get(st, "iteration", 0) + 1]

\* the slice limit of the source excerpt, and the marker appended after it
CONTENT_LIMIT == 200
ELLIPSIS == "..."

\* mutant of Excerpt: a text of exactly 200 characters is cut as well
Excerpt_ge(text) ==
    IF Len(text) >= CONTENT_LIMIT
    THEN SubSeq(text, 1, CONTENT_LIMIT) \o ELLIPSIS
    ELSE text

\* doc.page_content[:200] + "..." if len(doc.page_content) > 200 else doc.page_content
Excerpt(text) ==
    IF Len(text) > CONTENT_LIMIT
    THEN SubSeq(text, 1, CONTENT_LIMIT) \o ELLIPSIS
    ELSE text

\* str(doc.metadata.get("page", ""))
PageString(metadata) ==
    IF "page" \in DOMAIN metadata THEN ToString(metadata["page"]) ELSE ""

SourceDocument(doc) ==
    [content |-> Excerpt(doc.page_content),
     source |-> Get(doc.metadata, "source", UNKNOWN_SOURCE),
     page |-> PageString(doc.metadata)]

\* mutant of SourcesLoop: a chunk is skipped when its text, not its source, was seen
RECURSIVE SourcesLoop_bytext(_, _, _)
SourcesLoop_bytext(docs, seen_sources, sources) ==
    IF docs = <<>> THEN sources
    ELSE LET doc == Head(docs)
             source_key == doc.page_content IN
         IF source_key \notin seen_sources
         THEN SourcesLoop_bytext(Tail(docs), seen_sources \cup {source_key},
                                 Append(sources, SourceDocument(doc)))
         ELSE SourcesLoop_bytext(Tail(docs), seen_sources, sources)

\* the loop of query() over result["retrieved_documents"] with seen_sources
RECURSIVE SourcesLoop(_, _, _)
SourcesLoop(docs, seen_sources, sources) ==
    IF docs = <<>> THEN sources
    ELSE LET doc == Head(docs)
             source_key == Get(doc.metadata, "source", UNKNOWN_SOURCE) IN
         IF source_key \notin seen_sources
         THEN SourcesLoop(Tail(docs), seen_sources \cup {source_key},
                          Append(sources, SourceDocument(doc)))
         ELSE SourcesLoop(Tail(docs), seen_sources, sources)

\* result.get("answer", <default>)
NO_ANSWER == "no answer could be generated"

\* mutant of query_response: the iteration count is reported one too low
query_response_zero_based(result) ==
    [answer |-> Get(result, "answer", NO_ANSWER),
     sources |-> SourcesLoop(Get(result, "retrieved_documents", <<>>), {}, <<>>),
     is_sufficient |-> Get(result, "is_sufficient", FALSE),
     iterations |-> Get(result, "iteration", 0) - 1]

\* the QueryResponse query() builds from the dict agent.invoke returned
query_response(result) ==
    [answer |-> Get(result, "answer", NO_ANSWER),
     sources |-> SourcesLoop(Get(result, "retrieved_documents", <<>>), {}, <<>>),
     is_sufficient |-> Get(result, "is_sufficient", FALSE),
     iterations |-> Get(result, "iteration", 0)]

\* mutant of Merge: retrieved_documents is overwritten like every other key
Merge_overwrite(st, upd) ==
    [k \in DOMAIN st |-> IF k \in DOMAIN upd THEN upd[k] ELSE st[k]]

\* LangGraph's merge of a node's update into the state: retrieved_documents is
\* Annotated[list, operator.add], every other key is overwritten
Merge(st, upd) ==
    [k \in DOMAIN st |->
        IF k \in DOMAIN upd
        THEN IF k = "retrieved_documents" THEN st[k] \o upd[k] ELSE upd[k]
        ELSE st[k]]

\* the dict query() passes to agent.invoke
InitialState(question) ==
    [query |-> question,
     search_queries |-> <<>>,
     retrieved_documents |-> <<>>,
     answer |-> "",
     is_sufficient |-> FALSE,
     evaluation_reason |-> "",
     iteration |-> 0]

----------------------------------------------------------------------------
(* The run of the graph *)

Nodes == {"analyze_query", "retrieve_documents", "generate_answer", "evaluate_answer"}

\* mutant of edge: analyze_query is wired straight to generate_answer
edge_skip(node) ==
    CASE node = "analyze_query" -> "generate_answer"
      [] node = "retrieve_documents" -> "generate_answer"
      [] node = "generate_answer" -> "evaluate_answer"

\* workflow.add_edge(...)
edge(node) ==
    CASE node = "analyze_query" -> "retrieve_documents"
      [] node = "retrieve_documents" -> "generate_answer"
      [] node = "generate_answer" -> "evaluate_answer"

\* mutant of route_after_evaluate: should_retry sees the state before the update
route_before_merge(before, after) ==
    IF should_retry(before) = "retry" THEN "analyze_query" ELSE "END"

\* workflow.add_conditional_edges("evaluate_answer", should_retry, {...}): the
\* decision is taken on the state after evaluate_answer's update was merged
route_after_evaluate(before, after) ==
    IF should_retry(after) = "retry" THEN "analyze_query" ELSE "END"

Init ==
    /\ \E q \in Questions : state = InitialState(q)
    /\ pc = "analyze_query"
    /\ trace = <<>>
    /\ evalCount = 0
    /\ lastEval = NoEval
    /\ analyzerInput = <<>>
    /\ decision = "none"
    /\ searched = NoSearch
    /\ response = NoResponse
    /\ lastAnswer = ""
    /\ analyzerOutput = <<>>
    /\ ServiceIdle

\* a list that fails validation makes query_analyzer.invoke raise: the node
\* returns nothing and the run is aborted
AnalyzeQuery ==
    /\ pc = "analyze_query"
    /\ \E queries \in AnalyzerOutputs :
          /\ analyzerOutput' = queries
          /\ IF SearchQueries_valid(queries)
             THEN /\ state' = Merge(state, analyze_query(state, queries))
                  /\ analyzerInput' = analyze_question(state)
                  /\ pc' = edge("analyze_query")
                  /\ trace' = Append(trace, "analyze_query")
             ELSE /\ pc' = "FAILED"
                  /\ UNCHANGED <<state, analyzerInput, trace>>
    /\ UNCHANGED <<evalCount, lastEval, decision, searched, response, lastAnswer>>
    /\ UNCHANGED serviceVars

Range(seq) == { seq[i] : i \in 1..Len(seq) }

\* similarity_search(query, k=3) against the store as it is during this step: a
\* ranking of at most k documents for each query text (at most hits in the model)
SearchIndexes(corpus, queries, hits) ==
    [Range(queries) -> SeqsOf(corpus, 0, Min(hits, SEARCH_K))]

RetrieveStep(corpus, hits, record) ==
    /\ pc = "retrieve_documents"
    /\ \E similarity_search \in SearchIndexes(corpus, state["search_queries"], hits) :
          LET queries == state["search_queries"]
              results == [i \in 1..Len(queries) |-> similarity_search[queries[i]]]
              upd == retrieve_documents(state, results) IN
          /\ state' = Merge(state, upd)
          /\ searched' = [results |-> IF record THEN results ELSE <<>>,
                          unique |-> upd.retrieved_documents,
                          k |-> SEARCH_K]
    /\ pc' = edge("retrieve_documents")
    /\ trace' = Append(trace, "retrieve_documents")
    /\ UNCHANGED <<evalCount, lastEval, analyzerInput, decision, response, lastAnswer,
                   analyzerOutput>>
    /\ UNCHANGED serviceVars

RetrieveDocuments == RetrieveStep(Corpus, MaxHits, FALSE)

GenerateAnswer ==
    /\ pc = "generate_answer"
    /\ \E answer \in Answers :
          /\ state' = Merge(state, generate_answer(state, answer))
          /\ lastAnswer' = answer
    /\ pc' = edge("generate_answer")
    /\ trace' = Append(trace, "generate_answer")
    /\ UNCHANGED <<evalCount, lastEval, analyzerInput, decision, searched, response,
                   analyzerOutput>>
    /\ UNCHANGED serviceVars

\* evaluate_answer, then the conditional edge should_retry on the merged state
EvaluateAnswer ==
    /\ pc = "evaluate_answer"
    /\ \E result \in EvaluationResults :
          /\ state' = Merge(state, evaluate_answer(state, result))
          /\ lastEval' = result
    /\ decision' = should_retry(state')
    /\ pc' = route_after_evaluate(state, state')
    /\ trace' = Append(trace, "evaluate_answer")
    /\ evalCount' = evalCount + 1
    /\ UNCHANGED <<analyzerInput, searched, response, lastAnswer, analyzerOutput>>
    /\ UNCHANGED serviceVars

\* the external call of the current node raises: the exception leaves agent.invoke
StepFails ==
    /\ pc \in Nodes
    /\ pc' = "FAILED"
    /\ UNCHANGED <<state, trace, evalCount, lastEval, analyzerInput, decision, searched,
                   response, lastAnswer, analyzerOutput>>
    /\ UNCHANGED serviceVars

\* mutant of invoke_returned: a failed run hands back the state it had reached
invoke_returned_partial(p) == p \in {"END", "FAILED"}

\* agent.invoke returns its result only when the graph reached END; an exception
\* raised in a node leaves query() without a result
invoke_returned(p) == p = "END"

\* the rest of query(): the QueryResponse is built from the final state
Respond ==
    /\ invoke_returned(pc)
    /\ response = NoResponse
    /\ response' = query_response(state)
    /\ UNCHANGED <<state, pc, trace, evalCount, lastEval, analyzerInput, decision,
                   searched, lastAnswer, analyzerOutput>>
    /\ UNCHANGED serviceVars

Next ==
    \/ AnalyzeQuery
    \/ RetrieveDocuments
    \/ GenerateAnswer
    \/ EvaluateAnswer
    \/ StepFails
    \/ Respond

Spec == Init /\ [][Next]_vars

\* every external call returns (or raises) and the graph executor then runs the
\* next node: a run is never suspended forever between two nodes
FairSpec == Spec /\ WF_vars(Next)

----------------------------------------------------------------------------
(* should_retry called on its own, as the unit tests call it *)

AllKeys == DOMAIN InitialState("question1")

Restrict(st, keys) == [k \in keys |-> st[k]]

\* the dicts handed to should_retry: every verdict and counter value, with and
\* without the two keys it reads through .get()
ShouldRetryArgs ==
    { Restrict([InitialState(q) EXCEPT !.is_sufficient = s, !.iteration = i,
                                       !.evaluation_reason = r, !.answer = a],
               AllKeys \ drop) :
        q \in Questions, s \in BOOLEAN, i \in 0..MaxIterArg, r \in Reasons,
        a \in {"", "answer1"}, drop \in SUBSET {"is_sufficient", "iteration"} }

InitShouldRetry ==
    /\ state \in ShouldRetryArgs
    /\ pc = "should_retry"
    /\ trace = <<>>
    /\ evalCount = 0
    /\ lastEval = NoEval
    /\ analyzerInput = <<>>
    /\ decision = "none"
    /\ searched = NoSearch
    /\ response = NoResponse
    /\ lastAnswer = ""
    /\ analyzerOutput = <<>>
    /\ ServiceIdle

CallShouldRetry ==
    /\ pc = "should_retry"
    /\ decision' = should_retry(state)
    /\ pc' = "returned"
    /\ UNCHANGED <<state, trace, evalCount, lastEval, analyzerInput, searched, response,
                   lastAnswer, analyzerOutput>>
    /\ UNCHANGED serviceVars

NextShouldRetry == CallShouldRetry

SpecShouldRetry == InitShouldRetry /\ [][NextShouldRetry]_vars

----------------------------------------------------------------------------
(* retrieve_documents on its own: one retrieval with k = 3, recorded *)

\* the state after analyze_query: the queries are set; earlier iterations may have
\* left documents in retrieved_documents
InitRetrieve ==
    /\ \E q \in Questions, queries \in SearchQueriesValues,
          prior \in SeqsOf(CorpusWithCopy, 0, 1) :
          state = [InitialState(q) EXCEPT !.search_queries = queries,
                                          !.retrieved_documents = prior]
    /\ pc = "retrieve_documents"
    /\ trace = <<"analyze_query">>
    /\ evalCount = 0
    /\ lastEval = NoEval
    /\ analyzerInput = <<state["query"]>>
    /\ decision = "none"
    /\ searched = NoSearch
    /\ response = NoResponse
    /\ lastAnswer = ""
    /\ analyzerOutput = state["search_queries"]
    /\ ServiceIdle

RetrieveRecorded == RetrieveStep(CorpusWithCopy, SEARCH_K, TRUE)

NextRetrieve == RetrieveRecorded

SpecRetrieve == InitRetrieve /\ [][NextRetrieve]_vars

----------------------------------------------------------------------------
(* one pass from retrieve_documents to the conditional edge, with every query's
   search result recorded *)

\* the state after the first analyze_query
InitPass ==
    /\ \E q \in Questions, queries \in SearchQueriesValues :
          state = [InitialState(q) EXCEPT !.search_queries = queries]
    /\ pc = "retrieve_documents"
    /\ trace = <<"analyze_query">>
    /\ evalCount = 0
    /\ lastEval = NoEval
    /\ analyzerInput = <<state["query"]>>
    /\ decision = "none"
    /\ searched = NoSearch
    /\ response = NoResponse
    /\ lastAnswer = ""
    /\ analyzerOutput = state["search_queries"]
    /\ ServiceIdle

RetrievePass == RetrieveStep(Corpus, MaxHits, TRUE)

NextPass ==
    \/ RetrievePass
    \/ GenerateAnswer
    \/ EvaluateAnswer
    \/ StepFails

SpecPass == InitPass /\ [][NextPass]_vars

----------------------------------------------------------------------------
(* the response built by query() from a final state, on its own *)

MaxDocs == 3

TEN_CHARS == "0123456789"
FIFTY_CHARS == TEN_CHARS \o TEN_CHARS \o TEN_CHARS \o TEN_CHARS \o TEN_CHARS

\* chunk texts of exactly 200 and of 201 characters
TEXT_AT_LIMIT == FIFTY_CHARS \o FIFTY_CHARS \o FIFTY_CHARS \o FIFTY_CHARS
TEXT_OVER_LIMIT == TEXT_AT_LIMIT \o "x"

\* chunks of two files: short and long texts, with and without a page
ResponseCorpus ==
    {DocP(TEXT_AT_LIMIT, "s1.md", 0), DocP(TEXT_OVER_LIMIT, "s1.md", 1),
     Doc("text_a", "s2.md"), DocP(TEXT_OVER_LIMIT, "s2.md", 2)}

\* the dict agent.invoke returned: the state of a run that reached END
InitResponse ==
    /\ \E q \in Questions, docs \in SeqsOf(ResponseCorpus, 0, MaxDocs),
          answer \in Answers, verdict \in BOOLEAN, n \in 1..MAX_ITERATIONS :
          /\ state = [InitialState(q) EXCEPT !.search_queries = <<"sq1">>,
                                             !.retrieved_documents = docs,
                                             !.answer = answer,
                                             !.is_sufficient = verdict,
                                             !.iteration = n]
          /\ evalCount = n
          /\ lastAnswer = answer
    /\ pc = "END"
    /\ trace = <<>>
    /\ lastEval = NoEval
    /\ analyzerInput = <<state["query"]>>
    /\ decision = "end"
    /\ searched = NoSearch
    /\ response = NoResponse
    /\ analyzerOutput = state["search_queries"]
    /\ ServiceIdle

NextResponse == Respond

SpecResponse == InitResponse /\ [][NextResponse]_vars

----------------------------------------------------------------------------
(* query(): POST /query from the request body to the first retrieval *)

\* QueryRequest: question Field(..., min_length=1), top_k Field(default=5, ge=1, le=20)
QUESTION_MIN_LENGTH == 1
TOP_K_DEFAULT == 5
TOP_K_MIN == 1
TOP_K_MAX == 20

\* the request bodies: with and without top_k, with an empty and without a question
RequestBodies ==
    LET questions == Questions \cup {""}
        top_ks == {TOP_K_MIN - 1, TOP_K_MIN, SEARCH_K, TOP_K_DEFAULT, TOP_K_MAX,
                   TOP_K_MAX + 1} IN
    [question : questions, top_k : top_ks] \cup [question : questions]
        \cup [top_k : top_ks]

\* mutant of QueryRequest_valid: question without min_length
QueryRequest_valid_empty(body) ==
    /\ "question" \in DOMAIN body
    /\ "top_k" \in DOMAIN body => (body.top_k >= TOP_K_MIN /\ body.top_k <= TOP_K_MAX)

\* the validation FastAPI runs on the body before it calls query()
QueryRequest_valid(body) ==
    /\ "question" \in DOMAIN body
    /\ Len(body.question) >= QUESTION_MIN_LENGTH
    /\ "top_k" \in DOMAIN body => (body.top_k >= TOP_K_MIN /\ body.top_k <= TOP_K_MAX)

\* the QueryRequest built from a valid body
QueryRequest(body) ==
    [question |-> body.question, top_k |-> Get(body, "top_k", TOP_K_DEFAULT)]

\* no RAGAgentState exists before agent.invoke
NoState == [status |-> "none"]

InitRequest ==
    /\ state = NoState
    /\ pc = "validate"
    /\ trace = <<>>
    /\ evalCount = 0
    /\ lastEval = NoEval
    /\ analyzerInput = <<>>
    /\ decision = "none"
    /\ searched = NoSearch
    /\ response = NoResponse
    /\ lastAnswer = ""
    /\ analyzerOutput = <<>>
    /\ request \in RequestBodies
    /\ store = SetToBag(Corpus)
    /\ upload = NoUpload
    /\ health = NoHealth
    /\ runs = NoRuns

\* an invalid body is answered by the framework; query() is not called
ValidateRequest ==
    /\ pc = "validate"
    /\ IF QueryRequest_valid(request)
       THEN pc' = "create_rag_agent" /\ UNCHANGED response
       ELSE pc' = "REJECTED" /\ response' = [status |-> "validation_error"]
    /\ UNCHANGED <<state, trace, evalCount, lastEval, analyzerInput, decision, searched,
                   lastAnswer, analyzerOutput>>
    /\ UNCHANGED serviceVars

\* agent = create_rag_agent(settings)
CreateAgent ==
    /\ pc = "create_rag_agent"
    /\ pc' = "invoke"
    /\ UNCHANGED <<state, trace, evalCount, lastEval, analyzerInput, decision, searched,
                   response, lastAnswer, analyzerOutput>>
    /\ UNCHANGED serviceVars

\* agent.invoke({...}): the graph starts at its entry point on the initial state
InvokeAgent ==
    /\ pc = "invoke"
    /\ state' = InitialState(QueryRequest(request).question)
    /\ pc' = "analyze_query"
    /\ UNCHANGED <<trace, evalCount, lastEval, analyzerInput, decision, searched,
                   response, lastAnswer, analyzerOutput>>
    /\ UNCHANGED serviceVars

NextRequest ==
    \/ ValidateRequest
    \/ CreateAgent
    \/ InvokeAgent
    \/ AnalyzeQuery
    \/ RetrieveDocuments
    \/ StepFails

SpecRequest == InitRequest /\ [][NextRequest]_vars

----------------------------------------------------------------------------
(* upload_document: POST /upload *)

MaxChunks == 2

\* the names an uploaded file can carry; "" stands for a missing filename
Filenames ==
    {"a.pdf", "a.md", "a.txt", "a.PDF", "a.Md", "a.docx", "a.tar.gz", "a.pdf.docx",
     "a.docx.md", "notes", ".pdf", "a.", ""}

\* str.lower() on the letters file names are written with here
LowerChar(c) ==
    CASE c = "P" -> "p" [] c = "D" -> "d" [] c = "F" -> "f" [] c = "M" -> "m"
      [] c = "T" -> "t" [] c = "X" -> "x" [] OTHER -> c

RECURSIVE Lower(_)
Lower(str) ==
    IF Len(str) = 0 THEN ""
    ELSE LowerChar(SubSeq(str, 1, 1)) \o Lower(SubSeq(str, 2, Len(str)))

\* str.rfind("."): the last position of a dot, 0 when there is none
LastDot(name) ==
    LET dots == { i \in 1..Len(name) : SubSeq(name, i, i) = "." } IN
    IF dots = {} THEN 0 ELSE CHOOSE i \in dots : \A j \in dots : j <= i

\* PurePath.suffix: the part from the last dot on, unless the name starts or
\* ends with that dot
PathSuffix(name) ==
    LET i == LastDot(name) IN
    IF 1 < i /\ i < Len(name) THEN SubSeq(name, i, Len(name)) ELSE ""

SUPPORTED_SUFFIXES == {".pdf", ".md", ".txt"}

HTTP_BAD_REQUEST == 400

\* mutant of suffix_supported: every file is let through to the loaders
suffix_supported_any(suffix) == TRUE

\* suffix not in (".pdf", ".md", ".txt") raises HTTPException(400)
suffix_supported(suffix) == suffix \in SUPPORTED_SUFFIXES

\* what a loader returns for the saved file: the pages of a PDF, or the one
\* document of a text file; source is the path of the temporary file
LoaderOutputs(suffix) ==
    IF suffix = ".pdf"
    THEN {<<DocP("page_text", "tmp.pdf", 0)>>,
          <<DocP("page_text", "tmp.pdf", 0), DocP("page_text", "tmp.pdf", 1)>>}
    ELSE {<<Doc("file_text", "tmp" \o suffix)>>}

\* what split_documents returns: chunks carrying the metadata of a document
SplitOutputs(documents) ==
    SeqsOf({ [page_content |-> "chunk_text", metadata |-> documents[i].metadata] :
               i \in 1..Len(documents) }, 0, MaxChunks)

\* the bag of the elements of a sequence
RECURSIVE BagOfSeq(_)
BagOfSeq(seq) ==
    IF seq = <<>> THEN EmptyBag ELSE SetToBag({Head(seq)}) (+) BagOfSeq(Tail(seq))

\* VectorStoreManager.add_documents: one db.add_documents call with all chunks
add_documents(collection, chunks) == collection (+) BagOfSeq(chunks)

InitUpload ==
    /\ \E q \in Questions : state = InitialState(q)
    /\ pc = "idle"
    /\ trace = <<>>
    /\ evalCount = 0
    /\ lastEval = NoEval
    /\ analyzerInput = <<>>
    /\ decision = "none"
    /\ searched = NoSearch
    /\ response = NoResponse
    /\ lastAnswer = ""
    /\ analyzerOutput = <<>>
    /\ request = NoRequest
    /\ store = SetToBag(Corpus)
    /\ \E filename \in Filenames :
          upload = [filename |-> filename, pc |-> "check_suffix", suffix |-> "",
                    tmp_files |-> 0, steps |-> <<>>, documents |-> <<>>,
                    chunks |-> <<>>, response |-> NoResponse]
    /\ health = NoHealth
    /\ runs = NoRuns

agentVars ==
    <<state, pc, trace, evalCount, lastEval, analyzerInput, decision, searched,
      response, lastAnswer, analyzerOutput>>

\* lines 103-108: the suffix check
UploadCheckSuffix ==
    /\ upload.pc = "check_suffix"
    /\ LET suffix == Lower(PathSuffix(upload.filename)) IN
       IF suffix_supported(suffix)
       THEN upload' = [upload EXCEPT !.suffix = suffix, !.pc = "save_tmp"]
       ELSE upload' = [upload EXCEPT !.suffix = suffix, !.pc = "REJECTED",
                                     !.response = [status_code |-> HTTP_BAD_REQUEST]]
    /\ UNCHANGED <<agentVars, request, store, health, runs>>

\* lines 113-116: the content is written to a temporary file
UploadSaveTmp ==
    /\ upload.pc = "save_tmp"
    /\ upload' = [upload EXCEPT !.tmp_files = @ + 1, !.pc = "load",
                                !.steps = Append(@, "save_tmp")]
    /\ UNCHANGED <<agentVars, request, store, health, runs>>

\* lines 119-122: load_pdf or load_markdown
UploadLoad ==
    /\ upload.pc = "load"
    /\ \E documents \in LoaderOutputs(upload.suffix) :
          upload' = [upload EXCEPT !.documents = documents, !.pc = "split",
                                   !.steps = Append(@, "load")]
    /\ UNCHANGED <<agentVars, request, store, health, runs>>

\* lines 125-129: split_documents
UploadSplit ==
    /\ upload.pc = "split"
    /\ \E chunks \in SplitOutputs(upload.documents) :
          upload' = [upload EXCEPT !.chunks = chunks, !.pc = "add",
                                   !.steps = Append(@, "split")]
    /\ UNCHANGED <<agentVars, request, store, health, runs>>

\* lines 132-133: the chunks are embedded and added to the collection
UploadAdd ==
    /\ upload.pc = "add"
    /\ store' = add_documents(store, upload.chunks)
    /\ upload' = [upload EXCEPT !.pc = "unlink", !.steps = Append(@, "add")]
    /\ UNCHANGED <<agentVars, request, health, runs>>

\* lines 136-141: the temporary file is removed and the count is returned
UploadReturn ==
    /\ upload.pc = "unlink"
    /\ upload' = [upload EXCEPT !.tmp_files = @ - 1, !.pc = "DONE",
                                !.response = [status_code |-> 200,
                                              document_count |-> Len(upload.chunks)]]
    /\ UNCHANGED <<agentVars, request, store, health, runs>>

\* a loader, the splitter or the vector store raises: the request is aborted
UploadFails ==
    /\ upload.pc \in {"load", "split", "add"}
    /\ upload' = [upload EXCEPT !.pc = "FAILED"]
    /\ UNCHANGED <<agentVars, request, store, health, runs>>

NextUpload ==
    \/ UploadCheckSuffix
    \/ UploadSaveTmp
    \/ UploadLoad
    \/ UploadSplit
    \/ UploadAdd
    \/ UploadReturn
    \/ UploadFails

SpecUpload == InitUpload /\ [][NextUpload]_vars

----------------------------------------------------------------------------
(* health_check: GET /health *)

MaxCount == 3

HTTP_OK == 200

\* what httpx.get on /api/tags does: a reply with a status code, or an exception
BackendOutcomes ==
    [kind : {"reply"}, status_code : {HTTP_OK, 204, 404, 500, 503}]
        \cup {[kind |-> "exception"]}

\* what load_existing and _collection.count() do: a count, or an exception
VectorstoreOutcomes ==
    [kind : {"count"}, count : 0..MaxCount] \cup {[kind |-> "exception"]}

OLLAMA_OK == "ok"
OLLAMA_BAD_REPLY == "error: cannot connect"
OLLAMA_UNREACHABLE == "error: cannot connect to the Ollama server"
VECTORSTORE_ERROR == "error: cannot access the vector store"

\* sub in str
Contains(str, sub) ==
    \E i \in 1..(Len(str) - Len(sub) + 1) : SubSeq(str, i, i + Len(sub) - 1) = sub

\* lines 154-160
ollama_status(outcome) ==
    IF outcome.kind = "exception" THEN OLLAMA_UNREACHABLE
    ELSE IF outcome.status_code # HTTP_OK THEN OLLAMA_BAD_REPLY
    ELSE OLLAMA_OK

\* lines 163-171
vectorstore_status(outcome) ==
    IF outcome.kind = "exception" THEN VECTORSTORE_ERROR
    ELSE "ok (" \o ToString(outcome.count) \o " documents)"

\* mutant of overall_status: healthy as soon as one of the two checks is fine
overall_status_either(ollama, vectorstore) ==
    IF ~Contains(ollama, "error") \/ ~Contains(vectorstore, "error")
    THEN "healthy" ELSE "unhealthy"

\* line 174
overall_status(ollama, vectorstore) ==
    IF ~Contains(ollama, "error") /\ ~Contains(vectorstore, "error")
    THEN "healthy" ELSE "unhealthy"

InitHealth ==
    /\ state = NoState
    /\ pc = "idle"
    /\ trace = <<>>
    /\ evalCount = 0
    /\ lastEval = NoEval
    /\ analyzerInput = <<>>
    /\ decision = "none"
    /\ searched = NoSearch
    /\ response = NoResponse
    /\ lastAnswer = ""
    /\ analyzerOutput = <<>>
    /\ request = NoRequest
    /\ store = SetToBag(Corpus)
    /\ upload = NoUpload
    /\ \E backend \in BackendOutcomes, vectorstore \in VectorstoreOutcomes :
          health = [pc |-> "check_ollama", backend |-> backend,
                    vectorstore |-> vectorstore, ollama_status |-> "",
                    vectorstore_status |-> "", response |-> NoResponse]
    /\ runs = NoRuns

HealthCheckOllama ==
    /\ health.pc = "check_ollama"
    /\ health' = [health EXCEPT !.ollama_status = ollama_status(health.backend),
                                !.pc = "check_vectorstore"]
    /\ UNCHANGED <<agentVars, request, store, upload, runs>>

HealthCheckVectorstore ==
    /\ health.pc = "check_vectorstore"
    /\ health' = [health EXCEPT
                     !.vectorstore_status = vectorstore_status(health.vectorstore),
                     !.pc = "return"]
    /\ UNCHANGED <<agentVars, request, store, upload, runs>>

HealthReturn ==
    /\ health.pc = "return"
    /\ health' = [health EXCEPT
                     !.response = [status |-> overall_status(health.ollama_status,
                                                             health.vectorstore_status),
                                   ollama_status |-> health.ollama_status,
                                   vectorstore_status |-> health.vectorstore_status],
                     !.pc = "DONE"]
    /\ UNCHANGED <<agentVars, request, store, upload, runs>>

NextHealth ==
    \/ HealthCheckOllama
    \/ HealthCheckVectorstore
    \/ HealthReturn

SpecHealth == InitHealth /\ [][NextHealth]_vars

----------------------------------------------------------------------------
(* two query requests served at the same time: query() runs in a worker thread
   per request, each with the agent and the state dict it created *)

RunIds == {1, 2}

\* the question of each request
RunQuestion(r) == IF r = 1 THEN "question1" ELSE "question2"

\* what the collaborators of a run can reply in the concurrent setting
RunQueries == {<<"sq1">>}
RunSearchResults == {<<<<>>>>, <<<<DocP("text_a", "s1.md", 0)>>>>}
RunVerdicts ==
    { result \in EvaluationResults :
        result.score = 9 /\ result.reason = "reason1" /\ result.missing_info = "" }

\* mutant of run_state: the nodes of every request work on one shared dict
run_state_shared(rs, r) == rs[1].state

\* the dict the nodes of request r read and update: the one its own
\* agent.invoke call was given
run_state(rs, r) == rs[r].state

\* one node of a run has returned: its update is merged and the edge is followed
RunAdvance(r, node, reply, upd) ==
    LET st == run_state(runs, r)
        after == Merge(st, upd) IN
    runs' = [runs EXCEPT
               ![r].state = after,
               ![r].pc = IF node = "evaluate_answer"
                         THEN route_after_evaluate(st, after) ELSE edge(node),
               ![r].log = Append(@, [node |-> node, outcome |-> "ok",
                                     reply |-> reply])]

frozenVars == <<agentVars, request, store, upload, health>>

InitConcurrent ==
    /\ state = NoState
    /\ pc = "idle"
    /\ trace = <<>>
    /\ evalCount = 0
    /\ lastEval = NoEval
    /\ analyzerInput = <<>>
    /\ decision = "none"
    /\ searched = NoSearch
    /\ response = NoResponse
    /\ lastAnswer = ""
    /\ analyzerOutput = <<>>
    /\ request = NoRequest
    /\ store = SetToBag(Corpus)
    /\ upload = NoUpload
    /\ health = NoHealth
    /\ runs = [r \in RunIds |-> [state |-> InitialState(RunQuestion(r)),
                                 pc |-> "analyze_query", log |-> <<>>]]

RunAnalyzeQuery(r) ==
    /\ runs[r].pc = "analyze_query"
    /\ \E queries \in RunQueries :
          RunAdvance(r, "analyze_query", queries,
                     analyze_query(run_state(runs, r), queries))
    /\ UNCHANGED frozenVars

RunRetrieveDocuments(r) ==
    /\ runs[r].pc = "retrieve_documents"
    /\ \E results \in RunSearchResults :
          RunAdvance(r, "retrieve_documents", results,
                     retrieve_documents(run_state(runs, r), results))
    /\ UNCHANGED frozenVars

RunGenerateAnswer(r) ==
    /\ runs[r].pc = "generate_answer"
    /\ \E answer \in Answers :
          RunAdvance(r, "generate_answer", answer,
                     generate_answer(run_state(runs, r), answer))
    /\ UNCHANGED frozenVars

RunEvaluateAnswer(r) ==
    /\ runs[r].pc = "evaluate_answer"
    /\ \E result \in RunVerdicts :
          RunAdvance(r, "evaluate_answer", result,
                     evaluate_answer(run_state(runs, r), result))
    /\ UNCHANGED frozenVars

\* the external call of the current node of request r raises
RunFails(r) ==
    /\ runs[r].pc \in Nodes
    /\ runs' = [runs EXCEPT
                  ![r].pc = "FAILED",
                  ![r].log = Append(@, [node |-> runs[r].pc, outcome |-> "raise",
                                        reply |-> "none"])]
    /\ UNCHANGED frozenVars

NextConcurrent ==
    \E r \in RunIds :
        \/ RunAnalyzeQuery(r)
        \/ RunRetrieveDocuments(r)
        \/ RunGenerateAnswer(r)
        \/ RunEvaluateAnswer(r)
        \/ RunFails(r)

SpecConcurrent == InitConcurrent /\ [][NextConcurrent]_vars

----------------------------------------------------------------------------
(* Claims *)

\* number of times node occurs in the history of executed nodes
Passes(node) == Cardinality({ i \in 1..Len(trace) : trace[i] = node })

Terminated == pc \in {"END", "FAILED"}

\* C1: every run started from the initial state ends (at END, or aborted by a
\* raised exception), and retrieve_documents, generate_answer and evaluate_answer
\* each execute at most MAX_ITERATIONS = 3 times, whatever the evaluator answers.
C1_BoundedTermination ==
    /\ <>Terminated
    /\ [](/\ Passes("retrieve_documents") <= MAX_ITERATIONS
          /\ Passes("generate_answer") <= MAX_ITERATIONS
          /\ Passes("evaluate_answer") <= MAX_ITERATIONS)

\* C1 witness: a run whose three evaluations all said "insufficient" has ended.
C1_Witness ==
    /\ pc = "END"
    /\ Passes("evaluate_answer") = 3
    /\ ~state["is_sufficient"]
    /\ ~lastEval.is_sufficient

\* C2: for every state with iteration >= MAX_ITERATIONS, should_retry returns
\* "end", whatever is_sufficient is (also when the key is absent).
C2_CapEnds ==
    (pc = "returned" /\ "iteration" \in DOMAIN state
        /\ state["iteration"] >= MAX_ITERATIONS)
    => decision = "end"

\* C2 witness: should_retry was called with an insufficient answer at the cap.
C2_Witness ==
    /\ pc = "returned"
    /\ "iteration" \in DOMAIN state /\ state["iteration"] = MAX_ITERATIONS
    /\ "is_sufficient" \in DOMAIN state /\ ~state["is_sufficient"]
    /\ decision = "end"

\* C3: for every state with is_sufficient = true, should_retry returns "end",
\* whatever iteration is (0, below the cap, above it, or absent).
C3_SufficientEnds ==
    (pc = "returned" /\ "is_sufficient" \in DOMAIN state /\ state["is_sufficient"])
    => decision = "end"

\* C3 witness: should_retry was called with a sufficient answer at iteration 0.
C3_Witness ==
    /\ pc = "returned"
    /\ "is_sufficient" \in DOMAIN state /\ state["is_sufficient"]
    /\ "iteration" \in DOMAIN state /\ state["iteration"] = 0
    /\ decision = "end"

\* what should_retry reads when both keys are present
HasBothKeys == {"is_sufficient", "iteration"} \subseteq DOMAIN state

\* C4: should_retry returns "retry" if and only if is_sufficient = false and
\* iteration < MAX_ITERATIONS, and "end" otherwise.
C4_RetryIff ==
    (pc = "returned" /\ HasBothKeys)
    => /\ decision \in {"retry", "end"}
       /\ decision = "retry"
            <=> (state["is_sufficient"] = FALSE /\ state["iteration"] < MAX_ITERATIONS)

\* C4 witness: an insufficient answer at iteration 2 was sent back for a retry.
C4_Witness ==
    /\ pc = "returned" /\ HasBothKeys
    /\ ~state["is_sufficient"]
    /\ state["iteration"] = MAX_ITERATIONS - 1
    /\ decision = "retry"

\* a step in which evaluate_answer ran and its evaluator call returned
EvaluateReturns == pc = "evaluate_answer" /\ pc' # "evaluate_answer" /\ pc' # "FAILED"

\* C5: the decision after the k-th evaluate_answer uses the incremented counter
\* (iteration = k): the run goes back to analyze_query iff that evaluation said
\* "insufficient" and k < 3, to END iff it said "sufficient" or k >= 3; the
\* third evaluation is never followed by analyze_query.
C5_PostIncrementDecision ==
    [][EvaluateReturns =>
        LET k == Passes("evaluate_answer")' IN
        /\ k = Passes("evaluate_answer") + 1
        /\ state'["iteration"] = k
        /\ pc' \in {"analyze_query", "END"}
        /\ pc' = "analyze_query" <=> (~lastEval'.is_sufficient /\ k < 3)
        /\ pc' = "END" <=> (lastEval'.is_sufficient \/ k >= 3)
        /\ k >= 3 => pc' # "analyze_query"]_vars

\* C5 witness: the second evaluation said "insufficient" and the run went back
\* to analyze_query with iteration = 2.
C5_Witness ==
    /\ pc = "analyze_query"
    /\ Passes("evaluate_answer") = 2
    /\ state["iteration"] = 2
    /\ ~lastEval.is_sufficient

\* C6: iteration starts at 0 and is increased by exactly 1 by each
\* evaluate_answer step and by no other step: in every reachable state it is the
\* number of evaluate_answer steps completed so far.
C6_IterationCountsEvaluations ==
    /\ state["iteration"] = Passes("evaluate_answer")
    /\ state["iteration"] = evalCount

\* C6 witness: two evaluations are done and the run is inside its third pass.
C6_Witness ==
    /\ pc = "generate_answer"
    /\ evalCount = 2
    /\ state["iteration"] = 2

\* the node that follows node in the state machine, when the run goes on
Follows(node) ==
    CASE node = "analyze_query" -> {"retrieve_documents"}
      [] node = "retrieve_documents" -> {"generate_answer"}
      [] node = "generate_answer" -> {"evaluate_answer"}
      [] node = "evaluate_answer" -> {"analyze_query", "END"}

\* C7: the run starts at analyze_query; analyze_query is followed by
\* retrieve_documents, that by generate_answer, that by evaluate_answer, that by
\* analyze_query or END only; nothing is skipped or executed after END (or after
\* a failure).
C7_StateMachineOrder ==
    /\ [](/\ (trace = <<>> => pc \in {"analyze_query", "FAILED"})
          /\ (trace # <<>> => trace[1] = "analyze_query")
          /\ \A i \in 1..(Len(trace) - 1) : trace[i + 1] \in Follows(trace[i])
          /\ (trace # <<>> /\ pc # "FAILED" => pc \in Follows(trace[Len(trace)]))
          /\ (pc = "END" => trace # <<>> /\ trace[Len(trace)] = "evaluate_answer"))
    /\ [][(pc \in Nodes /\ pc' # "FAILED") => trace' = Append(trace, pc)]_vars
    /\ [][(pc \in {"END", "FAILED"}) => UNCHANGED <<pc, trace, state>>]_vars

\* C7 witness: a run that went twice round the loop and reached END.
C7_Witness ==
    /\ pc = "END"
    /\ trace = <<"analyze_query", "retrieve_documents", "generate_answer",
                 "evaluate_answer", "analyze_query", "retrieve_documents",
                 "generate_answer", "evaluate_answer">>

IsPrefix(s, t) == Len(s) <= Len(t) /\ SubSeq(t, 1, Len(s)) = s

\* C8: retrieved_documents only grows: after each retrieve_documents step the
\* previous value is a prefix of the new one, followed by the list this pass
\* returned, and no other step changes it.
C8_RetrievedOnlyGrows ==
    [][/\ IsPrefix(state["retrieved_documents"], state'["retrieved_documents"])
       /\ Len(state'["retrieved_documents"]) >= Len(state["retrieved_documents"])
       /\ (pc = "retrieve_documents" /\ pc' = "generate_answer"
             => state'["retrieved_documents"]
                  = state["retrieved_documents"] \o searched'.unique)
       /\ (state'["retrieved_documents"] # state["retrieved_documents"]
             => pc = "retrieve_documents" /\ pc' = "generate_answer")]_vars

\* C8 witness: the second pass has appended to what the first pass retrieved
\* (three documents cannot come from one pass of the full-run model's store).
C8_Witness ==
    /\ pc = "generate_answer"
    /\ state["iteration"] = 1
    /\ Len(state["retrieved_documents"]) = 3
    /\ state["retrieved_documents"][1] # state["retrieved_documents"][3]

\* the (query, rank) positions of the recorded search results
Hits == { <<i, r>> \in (1..Len(searched.results)) \X (1..SEARCH_K) :
             r <= Len(searched.results[i]) }

HitDoc(h) == searched.results[h[1]][h[2]]

\* earlier query, or same query and earlier rank
Earlier(g, h) == g[1] < h[1] \/ (g[1] = h[1] /\ g[2] < h[2])

\* the hits whose text no earlier hit has
FirstHits ==
    { h \in Hits : \A g \in Hits :
        Earlier(g, h) => HitDoc(g).page_content # HitDoc(h).page_content }

\* C9: the list retrieve_documents returns is the search results in query order,
\* each query's in rank order, with every chunk whose text occurred earlier
\* removed: each distinct text once, at the place of its first occurrence.
C9_DedupFirstOccurrence ==
    pc = "generate_answer" =>
        LET unique == searched.unique IN
        /\ Len(unique) = Cardinality(FirstHits)
        /\ \A h \in FirstHits :
              unique[Cardinality({ g \in FirstHits : Earlier(g, h) }) + 1] = HitDoc(h)
        /\ \A i, j \in 1..Len(unique) :
              i # j => unique[i].page_content # unique[j].page_content
        /\ { unique[i].page_content : i \in 1..Len(unique) }
              = { HitDoc(h).page_content : h \in Hits }

\* C9 witness: the second query returned, with other metadata, a text the first
\* query had returned, and a new text after it; the copy was dropped.
C9_Witness ==
    /\ pc = "generate_answer"
    /\ Len(searched.results) = 2
    /\ searched.results[1] = <<DocP("text_a", "s1.md", 0)>>
    /\ searched.results[2] = <<Doc("text_a", "s2.md"), DocP("text_b", "s1.md", 1)>>
    /\ searched.unique = <<DocP("text_a", "s1.md", 0), DocP("text_b", "s1.md", 1)>>

\* the feedback text inside a question sent to the query analyzer ("" if none)
FeedbackOf(question) == IF Len(question) = 4 THEN question[3] ELSE ""

\* analyze_query has just run on a retry pass
RetryAnalyzed == pc = "retrieve_documents" /\ Passes("evaluate_answer") > 0

\* C10 as stated: on a retry the feedback passed to the query analyzer is the
\* last evaluation's missing_info.
C10_FeedbackIsMissingInfo ==
    RetryAnalyzed => FeedbackOf(analyzerInput) = lastEval.missing_info

\* C10 amended: on a retry the feedback passed to the query analyzer is the last
\* evaluation's reason (an empty reason adds no feedback); missing_info is not used.
C10_FeedbackIsReason ==
    RetryAnalyzed =>
        /\ ~lastEval.is_sufficient
        /\ FeedbackOf(analyzerInput) = lastEval.reason
        /\ analyzerInput =
              IF lastEval.reason = "" THEN <<state["query"]>>
              ELSE <<state["query"], RETRY_PREFIX, lastEval.reason, RETRY_SUFFIX>>

\* C10 witness: the evaluator gave a reason and a different missing_info, and the
\* retry question carries the reason.
C10_Witness ==
    /\ RetryAnalyzed
    /\ lastEval.reason = "reason1"
    /\ lastEval.missing_info = "missing1"
    /\ FeedbackOf(analyzerInput) = "reason1"

\* the retry instruction is wrapped around the given feedback text
Augmented(question, original, feedback) ==
    /\ Len(question) = 4
    /\ question[1] = original
    /\ question[2] = RETRY_PREFIX
    /\ question[3] = feedback
    /\ question[4] = RETRY_SUFFIX

\* analyze_query has just run on the first pass
FirstAnalyzed == pc = "retrieve_documents" /\ Passes("evaluate_answer") = 0

\* C11 as stated: on every retry pass the question sent to the query analyzer is
\* the original question augmented with the instruction, whatever text the
\* evaluator returned; on the first pass it is sent unaugmented.
C11_EveryRetryAugmented ==
    /\ RetryAnalyzed => Augmented(analyzerInput, state["query"], lastEval.reason)
    /\ FirstAnalyzed => analyzerInput = <<state["query"]>>

\* C11 amended: on a retry pass the question is augmented with the instruction
\* exactly when the evaluator returned a non-empty reason; with an empty reason,
\* and on the first pass, the original question is sent unaugmented.
C11_RetryAugmentedIfReason ==
    /\ (RetryAnalyzed /\ lastEval.reason # "")
         => Augmented(analyzerInput, state["query"], lastEval.reason)
    /\ (RetryAnalyzed /\ lastEval.reason = "") => analyzerInput = <<state["query"]>>
    /\ FirstAnalyzed => analyzerInput = <<state["query"]>>

\* C11 witness: a retry pass after an evaluation with an empty reason sent the
\* bare question.
C11_Witness ==
    /\ RetryAnalyzed
    /\ lastEval.reason = ""
    /\ ~lastEval.is_sufficient
    /\ analyzerInput = <<state["query"]>>

\* C12: query is never changed after entry: it stays one of the questions a run
\* is started with and no step assigns it (the augmented retry prompt is never
\* stored in it).
C12_QueryNeverChanges ==
    /\ [](state["query"] \in Questions)
    /\ [][state'["query"] = state["query"]]_vars
    /\ [](Len(trace) >= 1 => analyzerInput[1] = state["query"])
    /\ [](generate_call(state).question = state["query"])
    /\ [](evaluate_call(state).question = state["query"])

\* C12 witness: a retry pass sent an augmented prompt and query still holds the
\* original question.
C12_Witness ==
    /\ RetryAnalyzed
    /\ Len(analyzerInput) = 4
    /\ analyzerInput[1] = state["query"]
    /\ state["query"] = "question2"

\* the context handed to the answer generator by the step about to run
Context == generate_call(state).context

\* the k-th formatted part of the context
Part(k) == Context[2 * k - 1]

\* C17: in every generate_answer step the context holds one entry per element of
\* the whole accumulated retrieved_documents, in the list's order, numbered 1..N.
C17_ContextCoversAccumulated ==
    pc = "generate_answer" =>
        LET docs == state["retrieved_documents"]
            N == Len(docs) IN
        /\ Len(Context) = IF N = 0 THEN 0 ELSE 2 * N - 1
        /\ \A k \in 1..N :
              /\ Part(k).number = k
              /\ Part(k).content = docs[k].page_content
              /\ Part(k).source = docs[k].metadata["source"]
        /\ \A k \in 1..(N - 1) : Context[2 * k] = DELIMITER

\* C17 witness: the second pass is about to generate from three accumulated
\* documents, of which the latest retrieval returned one.
C17_Witness ==
    /\ pc = "generate_answer"
    /\ state["iteration"] = 1
    /\ Len(state["retrieved_documents"]) = 3
    /\ Len(searched.unique) = 1
    /\ Len(Context) = 5
    /\ Part(3).number = 3

\* C18 as stated: format_documents writes the page marker for every chunk whose
\* metadata has a page (page 0 included) and omits it exactly for chunks without.
C18_PageMarkerIffPage ==
    pc = "generate_answer" =>
        \A k \in 1..Len(state["retrieved_documents"]) :
            LET metadata == state["retrieved_documents"][k].metadata IN
            IF "page" \in DOMAIN metadata
            THEN Part(k).page_marker = <<metadata["page"]>>
            ELSE Part(k).page_marker = <<>>

\* the documents of the final state, and the source each carries
FinalDocs == state["retrieved_documents"]
SourceOf(doc) == doc.metadata["source"]

\* positions of the chunks that are the first of their source
FirstOfSource ==
    { i \in 1..Len(FinalDocs) :
        \A j \in 1..(i - 1) : SourceOf(FinalDocs[j]) # SourceOf(FinalDocs[i]) }

\* the position among the first chunks of the first chunk at position i
Rank(i) == Cardinality({ j \in FirstOfSource : j <= i })

\* C13: a run whose three evaluations all said "not sufficient" is at END, not
\* aborted, and its response carries the third pass's answer, one citation per
\* source of the accumulated chunks, is_sufficient = false and iterations = 3.
C13_ExhaustedRunResponds ==
    (Passes("evaluate_answer") = 3 /\ ~lastEval.is_sufficient) =>
        /\ pc = "END"
        /\ Passes("generate_answer") = 3
        /\ evalCount = 3
        /\ response # NoResponse =>
              /\ response.answer = lastAnswer
              /\ response.is_sufficient = FALSE
              /\ response.iterations = 3
              /\ Len(response.sources) = Cardinality(FirstOfSource)
              /\ \A i \in FirstOfSource :
                    response.sources[Rank(i)].source = SourceOf(FinalDocs[i])

\* C13 witness: the response of a run that was evaluated "not sufficient" three
\* times, with the one citation of the three accumulated chunks' common file.
C13_Witness ==
    /\ Passes("evaluate_answer") = 3
    /\ ~lastEval.is_sufficient
    /\ response # NoResponse
    /\ response.iterations = 3
    /\ response.answer = "answer2"
    /\ Len(response.sources) = 1
    /\ Len(FinalDocs) = 3

\* C14: a failed step aborts the run: the failing step leaves state and history
\* as they were, nothing happens after it, and no QueryResponse is ever built
\* from the state accumulated before the failure.
C14_FailureReturnsNothing ==
    /\ [](pc = "FAILED" => response = NoResponse)
    /\ [][(pc' = "FAILED") => (state' = state /\ trace' = trace)]_vars
    /\ [][(pc = "FAILED") => UNCHANGED vars]_vars

\* C14 witness: a step of the second pass failed after the first pass had
\* produced an answer and documents; there is no response.
C14_Witness ==
    /\ pc = "FAILED"
    /\ state["iteration"] = 1
    /\ state["answer"] = "answer1"
    /\ Len(trace) = 6
    /\ Len(state["retrieved_documents"]) >= 1
    /\ response = NoResponse

\* C15: an analyzer output outside 1..5 queries aborts the run and leaves the
\* state untouched (no default is stored in search_queries); so whenever
\* retrieve_documents is about to run, search_queries holds 1 to 5 queries.
C15_NonConformingIsFatal ==
    /\ [](pc = "retrieve_documents" =>
             /\ Len(state["search_queries"]) >= 1
             /\ Len(state["search_queries"]) <= 5
             /\ state["search_queries"] = analyzerOutput)
    /\ [][(Len(analyzerOutput') = 0 \/ Len(analyzerOutput') > 5) =>
             (pc' = "FAILED" /\ state' = state)]_vars

\* C15 witness: the analyzer of the second pass returned six queries; the run is
\* aborted and search_queries still holds the first pass's queries.
C15_Witness ==
    /\ pc = "FAILED"
    /\ Len(analyzerOutput) = 6
    /\ state["iteration"] = 1
    /\ Len(state["search_queries"]) = 2
    /\ state["search_queries"] # <<state["query"]>>

\* the retrieval of this pass was carried out
Retrieved == Len(trace) >= 2

\* C16: every query is searched whatever the earlier queries returned, each hit
\* is represented in retrieved_documents, and a pass whose searches all returned
\* nothing goes on to generate_answer (with an empty context), evaluate_answer
\* and the increment of iteration.
C16_ZeroResultsProceed ==
    Retrieved =>
        /\ Len(searched.results) = Len(state["search_queries"])
        /\ \A i \in 1..Len(searched.results) :
              \A j \in 1..Len(searched.results[i]) :
                 \E k \in 1..Len(FinalDocs) :
                    FinalDocs[k].page_content = searched.results[i][j].page_content
        /\ (pc = "generate_answer" /\ FinalDocs = <<>>) => Context = <<>>
        /\ (searched.unique = <<>> /\ pc # "FAILED") =>
              /\ Len(trace) = 2 => pc = "generate_answer"
              /\ Len(trace) = 3 => pc = "evaluate_answer"
              /\ Len(trace) = 4 =>
                    /\ pc \in {"analyze_query", "END"}
                    /\ state["iteration"] = 1
                    /\ evalCount = 1
                    /\ lastAnswer = state["answer"]

\* C16 witness: both queries of the pass returned nothing; the answer was
\* generated and evaluated and iteration is 1.
C16_Witness ==
    /\ Len(searched.results) = 2
    /\ searched.results[1] = <<>>
    /\ searched.results[2] = <<>>
    /\ FinalDocs = <<>>
    /\ Len(trace) = 4
    /\ state["iteration"] = 1
    /\ lastAnswer \in Answers
    /\ decision = "retry"

\* C19: the sources of a response are exactly the first chunks of each source
\* of the final retrieved_documents, in first-seen order: same source, page and
\* leading text as that chunk.
C19_OneSourcePerIdentifier ==
    response # NoResponse =>
        /\ Len(response.sources) = Cardinality(FirstOfSource)
        /\ \A i \in FirstOfSource :
              LET entry == response.sources[Rank(i)]
                  text == FinalDocs[i].page_content
                  n == Min(Len(text), 200) IN
              /\ entry.source = SourceOf(FinalDocs[i])
              /\ entry.page = PageString(FinalDocs[i].metadata)
              /\ SubSeq(entry.content, 1, n) = SubSeq(text, 1, n)

\* C19 witness: three chunks, the first two of the same file with different
\* text, gave two sources.
C19_Witness ==
    /\ response # NoResponse
    /\ Len(FinalDocs) = 3
    /\ SourceOf(FinalDocs[1]) = SourceOf(FinalDocs[2])
    /\ FinalDocs[1].page_content # FinalDocs[2].page_content
    /\ SourceOf(FinalDocs[3]) # SourceOf(FinalDocs[1])
    /\ Len(response.sources) = 2
    /\ response.sources[2].source = SourceOf(FinalDocs[3])

\* C20: the content of a source is the chunk text itself when the text has at
\* most 200 characters, and its first 200 characters followed by "..." when it
\* has more.
C20_ContentTruncatedOver200 ==
    response # NoResponse =>
        \A i \in FirstOfSource :
            LET content == response.sources[Rank(i)].content
                text == FinalDocs[i].page_content IN
            IF Len(text) <= 200
            THEN content = text
            ELSE /\ Len(content) = 203
                 /\ SubSeq(content, 1, 200) = SubSeq(text, 1, 200)
                 /\ SubSeq(content, 201, 203) = "..."

\* C20 witness: a response with a source of exactly 200 characters, unchanged,
\* and one of 201 characters, cut.
C20_Witness ==
    /\ response # NoResponse
    /\ Len(response.sources) = 2
    /\ Len(FinalDocs[1].page_content) = 200
    /\ response.sources[1].content = FinalDocs[1].page_content
    /\ Len(FinalDocs[2].page_content) = 201
    /\ Len(response.sources[2].content) = 203

\* file names whose extension is none of pdf, md, txt, or that have none
UnsupportedNames == {"a.docx", "a.tar.gz", "a.pdf.docx", "notes", "a.", ""}

\* C21: an upload with an unsupported extension never gets past the suffix
\* check: no temporary file is written, no loading, splitting or adding is done,
\* the collection is unchanged, and the rejection carries status 400.
C21_UnsupportedUploadRejected ==
    upload.filename \in UnsupportedNames =>
        /\ upload.pc \in {"check_suffix", "REJECTED"}
        /\ upload.tmp_files = 0
        /\ upload.steps = <<>>
        /\ upload.documents = <<>>
        /\ upload.chunks = <<>>
        /\ store = SetToBag(Corpus)
        /\ upload.pc = "REJECTED" => upload.response = [status_code |-> 400]

\* C21 witness: a file whose last extension is .docx was rejected.
C21_Witness ==
    /\ upload.filename = "a.pdf.docx"
    /\ upload.pc = "REJECTED"
    /\ upload.response.status_code = 400
    /\ upload.tmp_files = 0

\* C22: for a request with an empty question no agent is created and no
\* pipeline step runs: the request stays before validation or is rejected.
C22_EmptyQuestionRejected ==
    ("question" \in DOMAIN request /\ request.question = "") =>
        /\ pc \in {"validate", "REJECTED"}
        /\ state = NoState
        /\ trace = <<>>
        /\ analyzerInput = <<>>
        /\ searched = NoSearch

\* C22 witness: a request with an empty question and a valid top_k was rejected.
C22_Witness ==
    /\ pc = "REJECTED"
    /\ request = [question |-> "", top_k |-> 5]
    /\ response = [status |-> "validation_error"]

\* C25 as stated: every search of a run is issued with k equal to the request's
\* top_k (5 when omitted).
C25_SearchUsesTopK ==
    searched # NoSearch => searched.k = QueryRequest(request).top_k

\* the two checks of the health request succeeded
BackendFine == health.backend.kind = "reply" /\ health.backend.status_code = 200
VectorstoreFine == health.vectorstore.kind = "count"

\* a reported status that starts with "ok"
ReportsOk(status) == SubSeq(status, 1, 2) = "ok"

\* C26: the health response is "healthy" exactly when the backend replied 200
\* and the vector store could be read, "unhealthy" otherwise; and each of the
\* two reported statuses reflects its own check only.
C26_HealthyIffBothChecksPass ==
    health.pc = "DONE" =>
        /\ health.response.status = "healthy" <=> (BackendFine /\ VectorstoreFine)
        /\ health.response.status = "unhealthy" <=> ~(BackendFine /\ VectorstoreFine)
        /\ ReportsOk(health.response.ollama_status) <=> BackendFine
        /\ ReportsOk(health.response.vectorstore_status) <=> VectorstoreFine

\* C26 witness: the backend replied 503 while the vector store holds two
\* chunks: unhealthy, and the vector store is still reported as ok.
C26_Witness ==
    /\ health.pc = "DONE"
    /\ health.backend = [kind |-> "reply", status_code |-> 503]
    /\ health.vectorstore = [kind |-> "count", count |-> 2]
    /\ health.response.status = "unhealthy"
    /\ health.response.vectorstore_status = "ok (2 documents)"

\* C29: the step after an evaluation depends on the evaluator's is_sufficient
\* and on the counter only: had the evaluator returned any other score, reason
\* or missing_info with the same is_sufficient, the stored verdict, the counter,
\* the value of should_retry and the next node would have been the same.
C29_DecisionIgnoresScore ==
    [][(pc = "evaluate_answer" /\ pc' # "FAILED") =>
          \A other \in EvaluationResults :
             other.is_sufficient = lastEval'.is_sufficient =>
                LET alt == Merge(state, evaluate_answer(state, other)) IN
                /\ alt["is_sufficient"] = state'["is_sufficient"]
                /\ alt["iteration"] = state'["iteration"]
                /\ should_retry(alt) = decision'
                /\ route_after_evaluate(state, alt) = pc'
                /\ state'["is_sufficient"] = lastEval'.is_sufficient]_vars

\* C29 witness: an answer judged sufficient with the low score ended the run
\* after one pass.
C29_Witness ==
    /\ pc = "END"
    /\ lastEval.is_sufficient
    /\ lastEval.score = 3
    /\ state["is_sufficient"]
    /\ state["iteration"] = 1
    /\ decision = "end"

\* no two elements of docs have equal text
NoEqualTexts(docs) ==
    \A i, j \in 1..Len(docs) : i # j => docs[i].page_content # docs[j].page_content

\* number of elements of docs with the given text
Occurrences(docs, text) ==
    Cardinality({ i \in 1..Len(docs) : docs[i].page_content = text })

\* C30 as stated: no two elements of the accumulated retrieved_documents have
\* equal text.
C30_AccumulatedHasNoEqualTexts == NoEqualTexts(state["retrieved_documents"])

\* C30 amended: each retrieval appends a list free of equal texts to the list
\* accumulated so far, so a text occurs at most once per retrieval carried out.
C30_DedupWithinEachRetrieval ==
    /\ [](\A i \in 1..Len(FinalDocs) :
            Occurrences(FinalDocs, FinalDocs[i].page_content)
                <= Passes("retrieve_documents"))
    /\ [][(pc = "retrieve_documents" /\ pc' = "generate_answer") =>
            LET old == state["retrieved_documents"]
                all == state'["retrieved_documents"]
                new == SubSeq(all, Len(old) + 1, Len(all)) IN
            /\ IsPrefix(old, all)
            /\ NoEqualTexts(new)]_vars

\* C30 witness: the second retrieval returned the chunk the first one had
\* appended: it is in retrieved_documents twice.
C30_Witness ==
    /\ pc = "generate_answer"
    /\ state["iteration"] = 1
    /\ Len(FinalDocs) = 2
    /\ FinalDocs[1] = FinalDocs[2]
    /\ searched.unique = <<FinalDocs[2]>>

\* the update a node returns for a reply, on the state it is given
NodeUpdate(st, entry) ==
    CASE entry.node = "analyze_query" -> analyze_query(st, entry.reply)
      [] entry.node = "retrieve_documents" -> retrieve_documents(st, entry.reply)
      [] entry.node = "generate_answer" -> generate_answer(st, entry.reply)
      [] entry.node = "evaluate_answer" -> evaluate_answer(st, entry.reply)

\* a run on its own, fed the logged replies one after the other
RECURSIVE Alone(_, _)
Alone(run, log) ==
    IF log = <<>> THEN run
    ELSE LET entry == Head(log) IN
         IF entry.outcome = "raise"
         THEN Alone([run EXCEPT !.pc = "FAILED"], Tail(log))
         ELSE LET after == Merge(run.state, NodeUpdate(run.state, entry)) IN
              Alone([state |-> after,
                     pc |-> IF entry.node = "evaluate_answer"
                            THEN route_after_evaluate(run.state, after)
                            ELSE edge(entry.node)],
                    Tail(log))

AloneFromStart(r) ==
    Alone([state |-> InitialState(RunQuestion(r)), pc |-> "analyze_query"],
          runs[r].log)

OnlyChanges(keys) ==
    /\ DOMAIN state' = DOMAIN state
    /\ \A k \in DOMAIN state \ keys : state'[k] = state[k]

\* the node named has just run to completion
Ran(node) == pc = node /\ pc' # "FAILED" /\ trace' = Append(trace, node)

\* C31: every node changes only its own keys: analyze_query replaces
\* search_queries by the analyzer's new list and nothing else, retrieve_documents
\* changes only retrieved_documents, generate_answer only answer (set to the
\* generated one), evaluate_answer only is_sufficient, evaluation_reason and
\* iteration.
C31_StepsChangeOwnFields ==
    [][/\ Ran("analyze_query") =>
            /\ OnlyChanges({"search_queries"})
            /\ state'["search_queries"] = analyzerOutput'
       /\ Ran("retrieve_documents") => OnlyChanges({"retrieved_documents"})
       /\ Ran("generate_answer") =>
            /\ OnlyChanges({"answer"})
            /\ state'["answer"] = lastAnswer'
       /\ Ran("evaluate_answer") =>
            /\ OnlyChanges({"is_sufficient", "evaluation_reason", "iteration"})
            /\ state'["is_sufficient"] = lastEval'.is_sufficient
            /\ state'["evaluation_reason"] = lastEval'.reason]_vars

\* C31 witness: the first pass searched two queries (it retrieved two chunks);
\* the second analysis left a single query in search_queries.
C31_Witness ==
    /\ pc = "retrieve_documents"
    /\ state["iteration"] = 1
    /\ Len(FinalDocs) = 2
    /\ Len(state["search_queries"]) = 1
    /\ state["search_queries"] = analyzerOutput

\* C32: a query response reports between 1 and 3 iterations and is either
\* sufficient or reports 3; its answer is the one the last generation returned,
\* that answer is the one the last evaluation was given, and its is_sufficient
\* is the verdict of that evaluation: the run ended right after it.
C32_ResponseOfLastPass ==
    /\ [](response # NoResponse =>
             /\ response.iterations >= 1
             /\ response.iterations <= 3
             /\ response.is_sufficient \/ response.iterations = 3
             /\ response.iterations = evalCount
             /\ response.answer = lastAnswer
             /\ response.is_sufficient = lastEval.is_sufficient
             /\ Len(trace) >= 2
             /\ trace[Len(trace)] = "evaluate_answer"
             /\ trace[Len(trace) - 1] = "generate_answer")
    /\ [][Ran("evaluate_answer") =>
             /\ evaluate_call(state).answer = lastAnswer
             /\ state'["answer"] = lastAnswer]_vars

\* C32 witness: the answer of the second pass was judged sufficient; the
\* response carries that answer and two iterations.
C32_Witness ==
    /\ response # NoResponse
    /\ response.iterations = 2
    /\ response.is_sufficient
    /\ response.answer = "answer2"
    /\ lastAnswer = "answer2"
    /\ lastEval.is_sufficient

\* C33 as stated: when an upload request has finished, on whatever path, no
\* temporary file it created is left.
C33_TmpFileAlwaysDeleted ==
    upload.pc \in {"DONE", "FAILED", "REJECTED"} => upload.tmp_files = 0

====
